---- MODULE Spec2Model ----
(***************************************************************************)
(* The emitted device runtime (daemon_runtime.c), the emitted dispatch     *)
(* entries (daemon_entry.c), the rc_car config's command dispatch          *)
(* and the rc_car motor controller of the Daemon firmware toolchain, as    *)
(* state machines.                                                         *)
(*                                                                         *)
(* Representation choices:                                                 *)
(*  - a uint32_t is a pair <<hi, lo>> of 16-bit halves, so that all        *)
(*    arithmetic is exact modulo 2^32;                                     *)
(*  - a written decimal integer is a pair <<hi, lo>> with value            *)
(*    hi * 65536 + lo, lo in 0..65535 and hi any integer, so that values   *)
(*    wider than int and long can be written;                              *)
(*  - a float is a record: finite values are kept in thousandths;          *)
(*  - a request line is the sequence of its chunks: maximal runs of        *)
(*    non-space characters (words) and single spaces (" ").                *)
(***************************************************************************)
EXTENDS Integers, Sequences, FiniteSets, TLC

VARIABLES
  now,            \* uint32_t now_ms handed to the latest call
  calls,          \* number of runtime calls made so far
  g_last_cmd_ms,  \* static uint32_t g_last_cmd_ms
  op,             \* the latest call: "init", "tick" or "line"
  line,           \* the line handed to the latest daemon_runtime_handle_line
  out,            \* lines written by daemon_serial_write during the latest call
  called,         \* user functions run during the latest call, in order
  result,         \* what daemon_entry_dispatch returned in the latest call
  lastAccepted,   \* history: token of the latest accepted RUN since daemon_runtime_init
  t0,             \* history: now_ms of the latest accepted RUN
  halted,         \* history: what stopped the runtime since the latest accepted RUN
  quiet,          \* history: no line has been handled since the latest accepted RUN
  retry,          \* history: the latest call re-submits a rate-limited RUN
  d_profile,      \* dispatch harness: which generated daemon_entry.c
  d_abi,          \* dispatch harness: widths of int and long of the build
  d_token,        \* token handed to the latest daemon_entry_dispatch
  d_argv,         \* argv[0..argc-1] handed to the latest daemon_entry_dispatch
  d_ret,          \* what the latest daemon_entry_dispatch returned and did
  g_state,        \* rc_car config: static daemon_state_t g_state
  e_cmd,          \* rc_car config: the latest call (cmd of daemon_dispatch_command)
  e_a,            \* rc_car config: argument a of the latest daemon_dispatch_command
  e_b,            \* rc_car config: argument b of the latest daemon_dispatch_command
  e_ret,          \* rc_car config: what the latest daemon_dispatch_command returned
  g_last_throttle,  \* motor controller: static int16_t g_last_throttle
  g_last_steering,  \* motor controller: static int16_t g_last_steering
  g_deadman_ticks,  \* motor controller: static uint16_t g_deadman_ticks
  m_since,          \* history: mc_tick_10ms calls since the latest mc_set_drive,
                    \* counted up to the deadman limit + 1; -1 before any mc_set_drive
  m_wrapped         \* history: g_deadman_ticks has wrapped since the latest mc_set_drive or mc_init

vars == <<now, calls, g_last_cmd_ms, op, line, out, called, result, lastAccepted, t0,
          halted, quiet, retry, d_profile, d_abi, d_token, d_argv, d_ret,
          g_state, e_cmd, e_a, e_b, e_ret,
          g_last_throttle, g_last_steering, g_deadman_ticks, m_since, m_wrapped>>

mcVars == <<g_last_throttle, g_last_steering, g_deadman_ticks, m_since, m_wrapped>>

configVars == <<g_state, e_cmd, e_a, e_b, e_ret>>

runtimeVars == <<now, calls, g_last_cmd_ms, op, line, out, called, result,
                 lastAccepted, t0, halted, quiet, retry>>

----------------------------------------------------------------------------
(* Bounds of the model *)

MaxCalls == 3
MaxArgc == 2

----------------------------------------------------------------------------
(* uint32_t arithmetic on <<hi, lo>> pairs *)

W16 == 65536

U32Of(n) == <<(n \div W16) % W16, n % W16>>

U32Add(x, n) ==
  LET lo == x[2] + (n % W16)
      hi == x[1] + (n \div W16) + (lo \div W16)
  IN  <<hi % W16, lo % W16>>

U32Sub(a, b) ==
  LET lo == a[2] - b[2]
      borrow == IF lo < 0 THEN 1 ELSE 0
  IN  <<(a[1] - b[1] - borrow + 2 * W16) % W16, (lo + W16) % W16>>

U32Lt(a, b) == a[1] < b[1] \/ (a[1] = b[1] /\ a[2] < b[2])

U32Gt(a, b) == U32Lt(b, a)

----------------------------------------------------------------------------
(* daemon_runtime.h *)

DAEMON_OK == 0
DAEMON_ERR_BAD_TOKEN == 10
DAEMON_ERR_BAD_ARGS == 11
DAEMON_ERR_RANGE == 12
DAEMON_ERR_RATE_LIMIT == 13

(* A null pointer, as a token or as a line *)
NULL == "<NULL>"
NullLine == <<NULL>>

----------------------------------------------------------------------------
(* What the C library reads in the words used as arguments *)

(* Words that are, as a whole, an optionally signed decimal integer. *)
IntWords == {"0", "3", "4", "-1", "181", "-181", "65536", "4294967296"}

(* The integer written by such a word, as hi * 65536 + lo. *)
Written(w) ==
  CASE w = "0" -> <<0, 0>>
    [] w = "3" -> <<0, 3>>
    [] w = "4" -> <<0, 4>>
    [] w = "-1" -> <<-1, 65535>>
    [] w = "181" -> <<0, 181>>
    [] w = "-181" -> <<-1, 65355>>
    [] w = "65536" -> <<1, 0>>
    [] w = "4294967296" -> <<65536, 0>>

(* Words strtof reads to their end and strtol does not. *)
FloatOnlyWords == {"0.5", "1.5", "nan", "inf"}
FloatWords == IntWords \cup FloatOnlyWords

(* Words neither strtol nor strtof reads to their end. *)
OtherWords == {"left", "12x"}

Words == FloatWords \cup OtherWords

(* Values handed to user functions.  A finite float is kept in thousandths; *)
(* "huge" is a finite float above every range of the catalogs.              *)
Fin(v) == [k |-> "fin", v |-> v, s |-> ""]
Huge == [k |-> "huge", v |-> 0, s |-> ""]
NaN == [k |-> "nan", v |-> 0, s |-> ""]
PInf == [k |-> "pinf", v |-> 0, s |-> ""]
IntVal(v) == [k |-> "int", v |-> v, s |-> ""]
StrVal(w) == [k |-> "str", v |-> 0, s |-> w]

(* x < c and x > c as C evaluates them against a double constant c (in the *)
(* unit of x: thousandths for a float, units for an int); both are false   *)
(* when x is a NaN.                                                        *)
NumLt(x, c) ==
  CASE x.k \in {"fin", "int"} -> x.v < c
    [] OTHER -> FALSE

NumGt(x, c) ==
  CASE x.k \in {"fin", "int"} -> x.v > c
    [] x.k \in {"pinf", "huge"} -> TRUE
    [] OTHER -> FALSE

(* Widths of int and long in the builds the emitted C is compiled for. *)
Abis == {"avr", "ilp32", "lp64"}
IntBits(abi) == IF abi = "avr" THEN 16 ELSE 32
LongBits(abi) == IF abi = "lp64" THEN 64 ELSE 32

(* strtol(raw, &end, 10) of an integer word: the written value, or LONG_MAX / *)
(* LONG_MIN when it does not fit a long.                                      *)
strtol(w, abi) ==
  LET z == Written(w) IN
  IF LongBits(abi) = 32 /\ z[1] > 32767 THEN <<32767, 65535>>
  ELSE IF LongBits(abi) = 32 /\ z[1] < -32768 THEN <<-32768, 0>>
  ELSE z

(* (int)parsed: the low IntBits bits of the long, read as two's complement. *)
CastInt(z, abi) ==
  IF IntBits(abi) = 16
  THEN IF z[2] >= 32768 THEN z[2] - W16 ELSE z[2]
  ELSE LET h == z[1] % W16 IN
       IF h >= 32768 THEN (h - W16) * W16 + z[2] ELSE h * W16 + z[2]

(* bool daemon_parse_int(raw, &value): ok, and *value when ok. *)
daemon_parse_int(raw, abi) ==
  IF raw = NULL THEN [ok |-> FALSE, value |-> IntVal(0)]
  ELSE IF raw \notin IntWords THEN [ok |-> FALSE, value |-> IntVal(0)]
  ELSE [ok |-> TRUE, value |-> IntVal(CastInt(strtol(raw, abi), abi))]

(* strtof(raw, &end) of a word it reads to the end. *)
strtof(w) ==
  CASE w = "0" -> Fin(0)
    [] w = "3" -> Fin(3000)
    [] w = "4" -> Fin(4000)
    [] w = "-1" -> Fin(-1000)
    [] w = "181" -> Fin(181000)
    [] w = "-181" -> Fin(-181000)
    [] w = "65536" -> Fin(65536000)
    [] w = "4294967296" -> Huge
    [] w = "0.5" -> Fin(500)
    [] w = "1.5" -> Fin(1500)
    [] w = "nan" -> NaN
    [] w = "inf" -> PInf

(* bool daemon_parse_float(raw, &value): ok, and *value when ok. *)
daemon_parse_float(raw) ==
  IF raw = NULL THEN [ok |-> FALSE, value |-> Fin(0)]
  ELSE IF raw \notin FloatWords THEN [ok |-> FALSE, value |-> Fin(0)]
  ELSE [ok |-> TRUE, value |-> strtof(raw)]

----------------------------------------------------------------------------
(* The generated dispatch entries.  Each daemon_entry.c is a cascade of     *)
(* strcmp branches of one fixed shape; a file is the sequence of its        *)
(* branches, in the order of the text.                                      *)

BuiltinStop == [token |-> "STOP", builtin |-> TRUE, fn |-> "daemon_runtime_stop", args |-> <<>>]
Branch(token, fn, args) == [token |-> token, builtin |-> FALSE, fn |-> fn, args |-> args]
FloatArg(lo, hi) == [kind |-> "float", lo |-> lo, hi |-> hi]
IntArg(lo, hi) == [kind |-> "int", lo |-> lo, hi |-> hi]
StringArg == [kind |-> "string", lo |-> 0, hi |-> 0]

RcCarEntry ==
  << BuiltinStop,
     Branch("FWD", "daemon_cmd_fwd", <<FloatArg(0, 1000)>>),
     Branch("BWD", "daemon_cmd_bwd", <<FloatArg(0, 1000)>>),
     Branch("STRAFE", "daemon_cmd_strafe", <<StringArg, FloatArg(0, 1000)>>),
     Branch("TURN", "daemon_cmd_turn", <<FloatArg(-180000, 180000)>>),
     Branch("MECANUM", "daemon_cmd_mecanum", <<StringArg>>),
     Branch("STOP", "daemon_cmd_stop", <<>>) >>

SkyliftEntry ==
  << BuiltinStop,
     Branch("THROTTLE", "set_throttle", <<FloatArg(0, 1000)>>),
     Branch("YAW", "yaw_to", <<FloatArg(-180000, 180000)>>),
     Branch("STOP", "stop_motors", <<>>) >>

LinetraceEntry ==
  << BuiltinStop,
     Branch("CALIBRATE", "calibrate", <<IntArg(0, 3)>>) >>

GripworksEntry ==
  << BuiltinStop,
     Branch("GRIP", "set_grip", <<StringArg>>),
     Branch("GRIP_FORCE", "set_grip_force", <<FloatArg(0, 40000)>>) >>

Profiles == {"rc_car", "skylift", "linetrace", "gripworks"}

Entry(profile) ==
  CASE profile = "rc_car" -> RcCarEntry
    [] profile = "skylift" -> SkyliftEntry
    [] profile = "linetrace" -> LinetraceEntry
    [] profile = "gripworks" -> GripworksEntry

Ret(code, written, fns) == [result |-> code, out |-> written, called |-> fns]

(* The body of one branch after its arity check: arguments are decoded and *)
(* range-checked left to right, then the user function is called.          *)
RECURSIVE DecodeArgs(_, _, _, _, _)
DecodeArgs(b, argv, abi, i, acc) ==
  IF i > Len(b.args)
  THEN Ret(DAEMON_OK, <<>>, << <<b.fn, acc>> >>)
  ELSE
    LET a == b.args[i]
        p == IF a.kind = "int" THEN daemon_parse_int(argv[i], abi)
             ELSE IF a.kind = "float" THEN daemon_parse_float(argv[i])
             ELSE [ok |-> TRUE, value |-> StrVal(argv[i])]
    IN  IF ~p.ok THEN Ret(DAEMON_ERR_BAD_ARGS, <<>>, <<>>)
        ELSE IF a.kind # "string" /\ NumLt(p.value, a.lo) THEN Ret(DAEMON_ERR_RANGE, <<>>, <<>>)
        ELSE IF a.kind # "string" /\ NumGt(p.value, a.hi) THEN Ret(DAEMON_ERR_RANGE, <<>>, <<>>)
        ELSE DecodeArgs(b, argv, abi, i + 1, Append(acc, p.value))

(* A branch whose arity check reads argc < n for argc != n. *)
RunBranch_ArityLt(b, argv, abi) ==
  IF b.builtin THEN Ret(DAEMON_OK, <<"OK">>, <<>>)
  ELSE IF Len(argv) < Len(b.args) THEN Ret(DAEMON_ERR_BAD_ARGS, <<>>, <<>>)
  ELSE DecodeArgs(b, argv, abi, 1, <<>>)

(* A branch that calls its user function before a range check that fails. *)
RunBranch_CallsBeforeRange(b, argv, abi) ==
  IF b.builtin THEN Ret(DAEMON_OK, <<"OK">>, <<>>)
  ELSE IF Len(argv) # Len(b.args) THEN Ret(DAEMON_ERR_BAD_ARGS, <<>>, <<>>)
  ELSE LET r == DecodeArgs(b, argv, abi, 1, <<>>)
       IN  IF r.result = DAEMON_ERR_RANGE
           THEN Ret(DAEMON_ERR_RANGE, <<>>, << <<b.fn, <<>> >> >>)
           ELSE r

(* One strcmp branch that matched the token. *)
RunBranch(b, argv, abi) ==
  IF b.builtin THEN Ret(DAEMON_OK, <<"OK">>, <<>>)
  ELSE IF Len(argv) # Len(b.args) THEN Ret(DAEMON_ERR_BAD_ARGS, <<>>, <<>>)
  ELSE DecodeArgs(b, argv, abi, 1, <<>>)

RECURSIVE Cascade(_, _, _, _, _)
Cascade(entry, token, argv, abi, i) ==
  IF i > Len(entry) THEN Ret(DAEMON_ERR_BAD_TOKEN, <<>>, <<>>)
  ELSE IF entry[i].token = token THEN RunBranch(entry[i], argv, abi)
  ELSE Cascade(entry, token, argv, abi, i + 1)

(* daemon_entry_dispatch without the leading built-in STOP branch. *)
daemon_entry_dispatch_NoBuiltinStop(profile, abi, token, argv) ==
  IF token = NULL THEN Ret(DAEMON_ERR_BAD_TOKEN, <<>>, <<>>)
  ELSE Cascade(Entry(profile), token, argv, abi, 2)

(* int daemon_entry_dispatch(token, argc, argv), argc = Len(argv). *)
daemon_entry_dispatch(profile, abi, token, argv) ==
  IF token = NULL THEN Ret(DAEMON_ERR_BAD_TOKEN, <<>>, <<>>)
  ELSE Cascade(Entry(profile), token, argv, abi, 1)

----------------------------------------------------------------------------
(* The runtime: daemon_runtime.c of the rc_car_pi_arduino profile *)

g_watchdog_ms == 1200
g_min_cmd_interval_ms == 50

(* The dispatch entry the runtime is linked with. *)
RuntimeProfile == "rc_car"
RuntimeAbi == "avr"

(* result when daemon_entry_dispatch was not called *)
NoDispatch == -1

(* void daemon_runtime_stop(void): what it writes. *)
daemon_runtime_stop == <<"OK">>

(* The condition without the g_last_cmd_ms > 0 conjunct. *)
WatchdogExpired_NoSentinel(now_ms, last) ==
  U32Gt(U32Sub(now_ms, last), U32Of(g_watchdog_ms))

(* The condition of the if of daemon_runtime_tick. *)
WatchdogExpired(now_ms, last) ==
  /\ last # U32Of(0)
  /\ U32Gt(U32Sub(now_ms, last), U32Of(g_watchdog_ms))

(* void daemon_runtime_tick(uint32_t now_ms): what it writes, and g_last_cmd_ms after. *)
daemon_runtime_tick(now_ms, last) ==
  IF WatchdogExpired(now_ms, last)
  THEN [out |-> daemon_runtime_stop, last |-> now_ms]
  ELSE [out |-> <<>>, last |-> last]

(* The rate-limit condition with <= written for <. *)
RateLimited_Inclusive(now_ms, last) ==
  /\ g_min_cmd_interval_ms > 0
  /\ last # U32Of(0)
  /\ ~U32Gt(U32Sub(now_ms, last), U32Of(g_min_cmd_interval_ms))

(* The condition of the rate-limit if of daemon_runtime_handle_line. *)
RateLimited(now_ms, last) ==
  /\ g_min_cmd_interval_ms > 0
  /\ last # U32Of(0)
  /\ U32Lt(U32Sub(now_ms, last), U32Of(g_min_cmd_interval_ms))

(* strncmp(line, "RUN ", 4) == 0 *)
IsRun(l) == Len(l) >= 2 /\ l[1] = "RUN" /\ l[2] = " "

(* const char *argv[16] *)
MaxArgv == 16

(* The strtok_r loop keeping every piece, with no argc < 16 test. *)
ArgvOf_Unbounded(l) ==
  IF SelectSeq(SubSeq(l, 3, Len(l)), LAMBDA c : c # " ") = <<>> THEN <<>>
  ELSE Tail(SelectSeq(SubSeq(l, 3, Len(l)), LAMBDA c : c # " "))

(* The strtok_r loop over line + 4: the token, and at most 16 further pieces. *)
Pieces(l) == SelectSeq(SubSeq(l, 3, Len(l)), LAMBDA c : c # " ")
TokenOf(l) == IF Pieces(l) = <<>> THEN NULL ELSE Head(Pieces(l))
ArgvOf(l) ==
  IF Pieces(l) = <<>> THEN <<>>
  ELSE LET rest == Tail(Pieces(l)) IN
       IF Len(rest) > MaxArgv THEN SubSeq(rest, 1, MaxArgv) ELSE rest

(* The chain with the lines of DAEMON_ERR_BAD_ARGS and DAEMON_ERR_RANGE exchanged. *)
ResultLine_ArgsRangeSwapped(code) ==
  CASE code = DAEMON_OK -> "OK"
    [] code = DAEMON_ERR_BAD_TOKEN -> "ERR BAD_TOKEN unknown"
    [] code = DAEMON_ERR_BAD_ARGS -> "ERR RANGE out_of_bounds"
    [] code = DAEMON_ERR_RANGE -> "ERR BAD_ARGS invalid"
    [] OTHER -> "ERR INTERNAL dispatch_failed"

(* The if / else-if chain on daemon_entry_dispatch's result. *)
ResultLine(code) ==
  CASE code = DAEMON_OK -> "OK"
    [] code = DAEMON_ERR_BAD_TOKEN -> "ERR BAD_TOKEN unknown"
    [] code = DAEMON_ERR_BAD_ARGS -> "ERR BAD_ARGS invalid"
    [] code = DAEMON_ERR_RANGE -> "ERR RANGE out_of_bounds"
    [] OTHER -> "ERR INTERNAL dispatch_failed"

Handled(written, fns, code, last) ==
  [out |-> written, called |-> fns, result |-> code, last |-> last]

(* The RUN branch with g_last_cmd_ms = now_ms moved out of the DAEMON_OK arm. *)
HandleRun_AlwaysFeeds(l, now_ms, last) ==
  IF RateLimited(now_ms, last)
  THEN Handled(<<"ERR RATE_LIMIT too_fast">>, <<>>, NoDispatch, last)
  ELSE
    LET r == daemon_entry_dispatch(RuntimeProfile, RuntimeAbi, TokenOf(l), ArgvOf(l))
    IN  Handled(Append(r.out, ResultLine(r.result)), r.called, r.result, now_ms)

(* The RUN branch of daemon_runtime_handle_line. *)
HandleRun(l, now_ms, last) ==
  IF RateLimited(now_ms, last)
  THEN Handled(<<"ERR RATE_LIMIT too_fast">>, <<>>, NoDispatch, last)
  ELSE
    LET r == daemon_entry_dispatch(RuntimeProfile, RuntimeAbi, TokenOf(l), ArgvOf(l))
    IN  Handled(Append(r.out, ResultLine(r.result)), r.called, r.result,
                IF r.result = DAEMON_OK THEN now_ms ELSE last)

(* daemon_runtime_handle_line with HELLO matched as a prefix of the line. *)
daemon_runtime_handle_line_HelloPrefix(l, now_ms, last) ==
  IF l = NullLine THEN Handled(<<"ERR BAD_REQUEST empty_line">>, <<>>, NoDispatch, last)
  ELSE IF l # <<>> /\ l[1] = "HELLO" THEN Handled(<<"OK">>, <<>>, NoDispatch, last)
  ELSE IF l = <<"READ_MANIFEST">> THEN Handled(<<"MANIFEST">>, <<>>, NoDispatch, last)
  ELSE IF l = <<"STOP">> THEN Handled(daemon_runtime_stop, <<>>, NoDispatch, last)
  ELSE IF IsRun(l) THEN HandleRun(l, now_ms, last)
  ELSE Handled(<<"ERR BAD_REQUEST unsupported">>, <<>>, NoDispatch, last)

(* void daemon_runtime_handle_line(const char *line, uint32_t now_ms):       *)
(* what it writes, the user functions it runs, and g_last_cmd_ms after.      *)
daemon_runtime_handle_line(l, now_ms, last) ==
  IF l = NullLine THEN Handled(<<"ERR BAD_REQUEST empty_line">>, <<>>, NoDispatch, last)
  ELSE IF l = <<"HELLO">> THEN Handled(<<"OK">>, <<>>, NoDispatch, last)
  ELSE IF l = <<"READ_MANIFEST">> THEN Handled(<<"MANIFEST">>, <<>>, NoDispatch, last)
  ELSE IF l = <<"STOP">> THEN Handled(daemon_runtime_stop, <<>>, NoDispatch, last)
  ELSE IF IsRun(l) THEN HandleRun(l, now_ms, last)
  ELSE Handled(<<"ERR BAD_REQUEST unsupported">>, <<>>, NoDispatch, last)

----------------------------------------------------------------------------
(* The manifest embedded in daemon_runtime.c: token and safety of each of   *)
(* its commands[], in order.                                                *)

Cmd(token, hz, wd) == [token |-> token, rate_limit_hz |-> hz, watchdog_ms |-> wd]

RcCarManifest ==
  << Cmd("FWD", 20, 1200), Cmd("BWD", 20, 1200), Cmd("STRAFE", 20, 1200),
     Cmd("TURN", 20, 1200), Cmd("MECANUM", 30, 1200), Cmd("STOP", 30, 1200) >>

(* The tokens of the @daemon:export annotations of each profile's firmware  *)
(* source, in the order of the text.                                        *)
RcCarExports == <<"INIT", "DRIVE", "ESTOP">>
SkyliftExports == <<"THROTTLE", "YAW", "STOP">>
LinetraceExports == <<"CALIBRATE">>
GripworksExports == <<"GRIP", "GRIP_FORCE">>

Exports(profile) ==
  CASE profile = "rc_car" -> RcCarExports
    [] profile = "skylift" -> SkyliftExports
    [] profile = "linetrace" -> LinetraceExports
    [] profile = "gripworks" -> GripworksExports

----------------------------------------------------------------------------
(* Inputs of the runtime *)

(* "RUN " followed by the given words, one space between them. *)
RECURSIVE Spaced(_)
Spaced(ws) ==
  IF ws = <<>> THEN <<>>
  ELSE IF Len(ws) = 1 THEN ws
  ELSE <<Head(ws), " ">> \o Spaced(Tail(ws))

RunLine(ws) == <<"RUN", " ">> \o Spaced(ws)

Lines ==
  { NullLine, <<"HELLO">>, <<"READ_MANIFEST">>, <<"STOP">>,
    <<>>, <<"RUN">>, <<"HELLO", " ">>,
    RunLine(<<>>),
    RunLine(<<"FWD", "0.5">>),
    RunLine(<<"FWD", "1.5">>),
    RunLine(<<"FWD">>),
    RunLine(<<"NOPE">>),
    <<"RUN", " ", " ">>,
    RunLine(<<"MECANUM">> \o [i \in 1..(MaxArgv + 1) |-> "0"]),
    RunLine(<<"STOP">>) }

(* Milliseconds the caller's clock advances between two calls. *)
Deltas == {0, 20, 50, 1201}

(* now_ms at the first call: 0, 1000, 2^32 - 20. *)
BootTimes == {U32Of(0), U32Of(1000), <<65535, 65516>>}

(* A RUN has been accepted since daemon_runtime_init. *)
accepted == lastAccepted # "none"

(* The protocol's state, from the history. *)
phase ==
  IF halted # "no" THEN "STOPPED"
  ELSE IF accepted THEN "ACTIVE"
  ELSE "IDLE"

----------------------------------------------------------------------------
(* The rc_car_pi_arduino config: configs/rc_car_pi_arduino-.../daemon_entry.c *)

(* static int clamp_i32(int value, int lo, int hi) *)
clamp_i32(value, lo, hi) ==
  IF value < lo THEN lo
  ELSE IF value > hi THEN hi
  ELSE value

(* daemon_drive_set without the test of g_state.estop. *)
daemon_drive_set_NoLatch(s, throttle_pct, steering_pct) ==
  [s EXCEPT !.throttle_pct = clamp_i32(throttle_pct, -100, 100),
            !.steering_pct = clamp_i32(steering_pct, -100, 100)]

(* static void daemon_drive_set(int throttle_pct, int steering_pct): g_state after. *)
daemon_drive_set(s, throttle_pct, steering_pct) ==
  IF s.estop THEN s
  ELSE [s EXCEPT !.throttle_pct = clamp_i32(throttle_pct, -100, 100),
                 !.steering_pct = clamp_i32(steering_pct, -100, 100)]

(* static void daemon_drive_brake(void) *)
daemon_drive_brake(s) == [s EXCEPT !.throttle_pct = 0]

(* static void daemon_camera_snapshot(void) *)
daemon_camera_snapshot(s) == s

(* static void daemon_emergency_stop(void) *)
daemon_emergency_stop(s) == [s EXCEPT !.estop = TRUE, !.throttle_pct = 0]

(* void daemon_clear_estop(void) *)
daemon_clear_estop(s) == [s EXCEPT !.estop = FALSE]

(* int daemon_dispatch_command(const char *cmd, int a, int b): g_state after, *)
(* and the value returned.                                                   *)
daemon_dispatch_command(s, cmd, a, b) ==
  CASE cmd = "drive.set" -> [state |-> daemon_drive_set(s, a, b), ret |-> 0]
    [] cmd = "drive.brake" -> [state |-> daemon_drive_brake(s), ret |-> 0]
    [] cmd = "camera.snapshot" -> [state |-> daemon_camera_snapshot(s), ret |-> 0]
    [] cmd = "safety.estop" -> [state |-> daemon_emergency_stop(s), ret |-> 0]
    [] OTHER -> [state |-> s, ret |-> -1]

(* The strings and ints handed to daemon_dispatch_command. *)
ConfigCmds == {"drive.set", "drive.brake", "camera.snapshot", "safety.estop", "drive.nope"}
ConfigInts == {-32768, -101, -100, 0, 60, 100, 101, 32767}

(* static daemon_state_t g_state = {0, 0, false}, and no call made. *)
ConfigInit ==
  /\ g_state = [throttle_pct |-> 0, steering_pct |-> 0, estop |-> FALSE]
  /\ e_cmd = "none"
  /\ e_a = 0
  /\ e_b = 0
  /\ e_ret = 0

----------------------------------------------------------------------------
(* The motor controller: profiles/rc_car_pi_arduino/arduino/motor_controller.c. *)
(* Its state is the record of its three statics.                                *)

UINT16_MAX == 65535

(* if (g_deadman_ticks > 50) *)
DeadmanLimit == 50

Mc(throttle, steering, ticks) ==
  [g_last_throttle |-> throttle, g_last_steering |-> steering, g_deadman_ticks |-> ticks]

(* void mc_init(void) *)
mc_init(s) == Mc(0, 0, 0)

(* void mc_set_drive(int16_t throttle_percent, int16_t steering_percent) *)
mc_set_drive(s, throttle_percent, steering_percent) ==
  LET t1 == IF throttle_percent > 100 THEN 100 ELSE throttle_percent
      t2 == IF t1 < -100 THEN -100 ELSE t1
      s1 == IF steering_percent > 100 THEN 100 ELSE steering_percent
      s2 == IF s1 < -100 THEN -100 ELSE s1
  IN  Mc(t2, s2, 0)

(* void mc_emergency_stop(void) *)
mc_emergency_stop(s) == [s EXCEPT !.g_last_throttle = 0]

(* mc_tick_10ms with the deadman test one tick later. *)
mc_tick_10ms_OneLate(s) ==
  LET t == [s EXCEPT !.g_deadman_ticks = (s.g_deadman_ticks + 1) % (UINT16_MAX + 1)]
  IN  IF t.g_deadman_ticks > DeadmanLimit + 1 THEN mc_emergency_stop(t) ELSE t

(* void mc_tick_10ms(void): g_deadman_ticks++ is modulo 2^16. *)
mc_tick_10ms(s) ==
  LET t == [s EXCEPT !.g_deadman_ticks = (s.g_deadman_ticks + 1) % (UINT16_MAX + 1)]
  IN  IF t.g_deadman_ticks > DeadmanLimit THEN mc_emergency_stop(t) ELSE t

(* The int16_t values handed to mc_set_drive. *)
McInts == {-32768, -101, 60, 101}

(* The statics as initialised, and no call made. *)
McStatic ==
  /\ g_last_throttle = 0
  /\ g_last_steering = 0
  /\ g_deadman_ticks = 0
  /\ m_since = -1
  /\ m_wrapped = FALSE

----------------------------------------------------------------------------
(* The runtime as a state machine *)

DispatchIdle ==
  /\ d_profile = RuntimeProfile
  /\ d_abi = RuntimeAbi
  /\ d_token = NULL
  /\ d_argv = <<>>
  /\ d_ret = Ret(NoDispatch, <<>>, <<>>)

Init ==
  /\ now \in BootTimes
  /\ calls = 0
  /\ g_last_cmd_ms = U32Of(0)
  /\ op = "init"
  /\ line = NullLine
  /\ out = <<>>
  /\ called = <<>>
  /\ result = NoDispatch
  /\ lastAccepted = "none"
  /\ t0 = U32Of(0)
  /\ halted = "no"
  /\ quiet = TRUE
  /\ retry = FALSE
  /\ DispatchIdle
  /\ ConfigInit
  /\ McStatic

(* daemon_runtime_init() *)
RuntimeInit ==
  /\ calls < MaxCalls
  /\ calls' = calls + 1
  /\ g_last_cmd_ms' = U32Of(0)
  /\ op' = "init"
  /\ line' = NullLine
  /\ out' = <<>>
  /\ called' = <<>>
  /\ result' = NoDispatch
  /\ lastAccepted' = "none"
  /\ t0' = U32Of(0)
  /\ halted' = "no"
  /\ quiet' = TRUE
  /\ retry' = FALSE
  /\ d_token' = NULL
  /\ d_argv' = <<>>
  /\ d_ret' = Ret(NoDispatch, <<>>, <<>>)
  /\ UNCHANGED <<now, d_profile, d_abi>>
  /\ UNCHANGED configVars
  /\ UNCHANGED mcVars

(* daemon_runtime_tick(now + d) *)
Tick(d) ==
  /\ calls < MaxCalls
  /\ calls' = calls + 1
  /\ now' = U32Add(now, d)
  /\ LET r == daemon_runtime_tick(now', g_last_cmd_ms) IN
       /\ g_last_cmd_ms' = r.last
       /\ out' = r.out
       /\ halted' = IF r.out # <<>> THEN "watchdog" ELSE halted
  /\ op' = "tick"
  /\ line' = NullLine
  /\ called' = <<>>
  /\ result' = NoDispatch
  /\ retry' = FALSE
  /\ d_token' = NULL
  /\ d_argv' = <<>>
  /\ d_ret' = Ret(NoDispatch, <<>>, <<>>)
  /\ UNCHANGED <<lastAccepted, t0, quiet, d_profile, d_abi>>
  /\ UNCHANGED configVars
  /\ UNCHANGED mcVars

(* daemon_runtime_handle_line(l, now + d) *)
HandleLine(l, d) ==
  /\ calls < MaxCalls
  /\ calls' = calls + 1
  /\ now' = U32Add(now, d)
  /\ LET r == daemon_runtime_handle_line(l, now', g_last_cmd_ms) IN
       /\ g_last_cmd_ms' = r.last
       /\ out' = r.out
       /\ called' = r.called
       /\ result' = r.result
       /\ lastAccepted' = IF r.result = DAEMON_OK THEN TokenOf(l) ELSE lastAccepted
       /\ t0' = IF r.result = DAEMON_OK THEN now' ELSE t0
       /\ halted' = IF r.result = DAEMON_OK THEN "no"
                    ELSE IF l = <<"STOP">> /\ phase = "ACTIVE" THEN "stop_active"
                    ELSE IF l = <<"STOP">> /\ halted # "stop_active" THEN "stop"
                    ELSE halted
       /\ quiet' = (r.result = DAEMON_OK)
       /\ d_token' = IF r.result # NoDispatch THEN TokenOf(l) ELSE NULL
       /\ d_argv' = IF r.result # NoDispatch THEN ArgvOf(l) ELSE <<>>
       /\ d_ret' = IF r.result # NoDispatch
                   THEN daemon_entry_dispatch(d_profile, d_abi, d_token', d_argv')
                   ELSE Ret(NoDispatch, <<>>, <<>>)
  /\ op' = "line"
  /\ line' = l
  /\ retry' = /\ op = "line"
              /\ line = l
              /\ out = <<"ERR RATE_LIMIT too_fast">>
              /\ d = g_min_cmd_interval_ms
  /\ UNCHANGED <<d_profile, d_abi>>
  /\ UNCHANGED configVars
  /\ UNCHANGED mcVars

Next ==
  \/ RuntimeInit
  \/ \E d \in Deltas : Tick(d)
  \/ \E l \in Lines, d \in Deltas : HandleLine(l, d)

Spec == Init /\ [][Next]_vars

----------------------------------------------------------------------------
(* daemon_entry_dispatch alone, over its inputs: one call per behaviour *)

Tokens == {NULL, "STOP", "NOPE", "FWD", "BWD", "STRAFE", "TURN", "MECANUM",
           "THROTTLE", "YAW", "CALIBRATE", "GRIP", "GRIP_FORCE"}

Argvs == UNION {[1..n -> Words] : n \in 0..MaxArgc}

InitDispatch ==
  /\ now = U32Of(0)
  /\ calls = 0
  /\ g_last_cmd_ms = U32Of(0)
  /\ op = "init"
  /\ line = NullLine
  /\ out = <<>>
  /\ called = <<>>
  /\ result = NoDispatch
  /\ lastAccepted = "none"
  /\ t0 = U32Of(0)
  /\ halted = "no"
  /\ quiet = TRUE
  /\ retry = FALSE
  /\ d_profile \in Profiles
  /\ d_abi \in Abis
  /\ d_token = NULL
  /\ d_argv = <<>>
  /\ d_ret = Ret(NoDispatch, <<>>, <<>>)
  /\ ConfigInit
  /\ McStatic

(* daemon_entry_dispatch(token, Len(argv), argv) *)
DispatchCall(token, argv) ==
  /\ d_token' = token
  /\ d_argv' = argv
  /\ d_ret' = daemon_entry_dispatch(d_profile, d_abi, token, argv)
  /\ UNCHANGED <<d_profile, d_abi>>
  /\ UNCHANGED runtimeVars
  /\ UNCHANGED configVars
  /\ UNCHANGED mcVars

NextDispatch ==
  /\ d_ret.result = NoDispatch
  /\ \E token \in Tokens, argv \in Argvs : DispatchCall(token, argv)

SpecDispatch == InitDispatch /\ [][NextDispatch]_vars

----------------------------------------------------------------------------
(* The rc_car config alone: any sequence of its two entry points *)

InitConfig ==
  /\ now = U32Of(0)
  /\ calls = 0
  /\ g_last_cmd_ms = U32Of(0)
  /\ op = "init"
  /\ line = NullLine
  /\ out = <<>>
  /\ called = <<>>
  /\ result = NoDispatch
  /\ lastAccepted = "none"
  /\ t0 = U32Of(0)
  /\ halted = "no"
  /\ quiet = TRUE
  /\ retry = FALSE
  /\ DispatchIdle
  /\ ConfigInit
  /\ McStatic

(* daemon_dispatch_command(cmd, a, b) *)
DispatchCommand(cmd, a, b) ==
  /\ LET r == daemon_dispatch_command(g_state, cmd, a, b) IN
       /\ g_state' = r.state
       /\ e_ret' = r.ret
  /\ e_cmd' = cmd
  /\ e_a' = a
  /\ e_b' = b
  /\ UNCHANGED runtimeVars
  /\ UNCHANGED <<d_profile, d_abi, d_token, d_argv, d_ret>>
  /\ UNCHANGED mcVars

(* daemon_clear_estop() *)
ClearEstop ==
  /\ g_state' = daemon_clear_estop(g_state)
  /\ e_cmd' = "daemon_clear_estop"
  /\ e_a' = 0
  /\ e_b' = 0
  /\ e_ret' = 0
  /\ UNCHANGED runtimeVars
  /\ UNCHANGED <<d_profile, d_abi, d_token, d_argv, d_ret>>
  /\ UNCHANGED mcVars

NextConfig ==
  \/ \E cmd \in ConfigCmds, a \in ConfigInts, b \in ConfigInts : DispatchCommand(cmd, a, b)
  \/ ClearEstop

SpecConfig == InitConfig /\ [][NextConfig]_vars

----------------------------------------------------------------------------
(* The motor controller alone: any sequence of its four functions *)

McNow == Mc(g_last_throttle, g_last_steering, g_deadman_ticks)

McBecomes(s) ==
  /\ g_last_throttle' = s.g_last_throttle
  /\ g_last_steering' = s.g_last_steering
  /\ g_deadman_ticks' = s.g_deadman_ticks

McOthersUnchanged ==
  /\ UNCHANGED runtimeVars
  /\ UNCHANGED <<d_profile, d_abi, d_token, d_argv, d_ret>>
  /\ UNCHANGED configVars

InitMc ==
  /\ now = U32Of(0)
  /\ calls = 0
  /\ g_last_cmd_ms = U32Of(0)
  /\ op = "init"
  /\ line = NullLine
  /\ out = <<>>
  /\ called = <<>>
  /\ result = NoDispatch
  /\ lastAccepted = "none"
  /\ t0 = U32Of(0)
  /\ halted = "no"
  /\ quiet = TRUE
  /\ retry = FALSE
  /\ DispatchIdle
  /\ ConfigInit
  /\ McStatic

(* mc_init() *)
McInit ==
  /\ McBecomes(mc_init(McNow))
  /\ m_wrapped' = FALSE
  /\ UNCHANGED m_since
  /\ McOthersUnchanged

(* mc_set_drive(throttle_percent, steering_percent) *)
McSetDrive(throttle_percent, steering_percent) ==
  /\ McBecomes(mc_set_drive(McNow, throttle_percent, steering_percent))
  /\ m_since' = 0
  /\ m_wrapped' = FALSE
  /\ McOthersUnchanged

(* mc_emergency_stop() *)
McEmergencyStop ==
  /\ McBecomes(mc_emergency_stop(McNow))
  /\ UNCHANGED <<m_since, m_wrapped>>
  /\ McOthersUnchanged

(* mc_tick_10ms() *)
McTick10ms ==
  /\ McBecomes(mc_tick_10ms(McNow))
  /\ m_since' = IF m_since = -1 \/ m_since > DeadmanLimit THEN m_since ELSE m_since + 1
  /\ m_wrapped' = (m_wrapped \/ g_deadman_ticks = UINT16_MAX)
  /\ McOthersUnchanged

NextMc ==
  \/ McInit
  \/ \E a \in McInts, b \in McInts : McSetDrive(a, b)
  \/ McEmergencyStop
  \/ McTick10ms

SpecMc == InitMc /\ [][NextMc]_vars

----------------------------------------------------------------------------
(* Vocabulary of the properties *)

(* A RUN line that daemon_entry_dispatch answers with DAEMON_OK. *)
AcceptableRun(l) ==
  /\ IsRun(l)
  /\ daemon_entry_dispatch(RuntimeProfile, RuntimeAbi, TokenOf(l), ArgvOf(l)).result = DAEMON_OK

RateLimitLine == "ERR RATE_LIMIT too_fast"

(* The commands of a catalog: the per-command branches after the built-in STOP. *)
Commands(profile) == {Entry(profile)[i] : i \in 2..Len(Entry(profile))}

(* An integer c as hi * 65536 + lo, and the order of such pairs. *)
ZOf(c) == <<c \div W16, c % W16>>
ZLt(a, b) == a[1] < b[1] \/ (a[1] = b[1] /\ a[2] < b[2])

(* The written integer z lies strictly outside [lo, hi]. *)
WrittenOutside(z, lo, hi) == ZLt(z, ZOf(lo)) \/ ZLt(ZOf(hi), z)

Dispatched == d_ret.result # NoDispatch

MinOf(S) == CHOOSE x \in S : \A y \in S : x <= y
MaxOf(S) == CHOOSE x \in S : \A y \in S : x >= y
CeilDiv(a, b) == (a + b - 1) \div b

(* The Runtime Emitter's rule for watchdog_ms: min over commands, floor 100. *)
DerivedWatchdogMs(cmds) ==
  MaxOf({100, MinOf({cmds[i].watchdog_ms : i \in DOMAIN cmds})})

(* The Runtime Emitter's rule for min_cmd_interval_ms: ceil(1000 / max rate), floor 10. *)
DerivedMinCmdIntervalMs(cmds) ==
  MaxOf({10, CeilDiv(1000, MaxOf({cmds[i].rate_limit_hz : i \in DOMAIN cmds}))})

(* The latest accepted RUN ran a command of the catalog (not RUN STOP). *)
CommandAccepted == accepted /\ lastAccepted # "STOP"

----------------------------------------------------------------------------
(* C1: watchdog expiry is edge-triggered.  After an accepted RUN and no     *)
(* further input line, once a tick has found the watchdog expired and       *)
(* written OK, every later tick, at any later time, writes nothing until a  *)
(* new RUN has been accepted.                                               *)
C1_WatchdogEdgeTriggered ==
  [][ (op' = "tick" /\ CommandAccepted /\ quiet /\ halted = "watchdog")
      => out' = <<>> ]_vars

(* C2: a RUN line handled less than g_min_cmd_interval_ms after the latest  *)
(* accepted RUN is answered with exactly ERR RATE_LIMIT too_fast, without   *)
(* calling daemon_entry_dispatch or a user function, and leaves              *)
(* g_last_cmd_ms unchanged.                                                 *)
C2_RateLimitRejects ==
  [][ ( /\ op' = "line"
        /\ IsRun(line')
        /\ CommandAccepted
        /\ U32Lt(U32Sub(now', t0), U32Of(g_min_cmd_interval_ms)) )
      => ( /\ out' = <<RateLimitLine>>
           /\ result' = NoDispatch
           /\ called' = <<>>
           /\ g_last_cmd_ms' = g_last_cmd_ms ) ]_vars

(* C3: once the watchdog has fired or a STOP line has been handled, a RUN   *)
(* line that dispatch accepts is answered OK whenever it arrives, and is    *)
(* never answered ERR RATE_LIMIT too_fast, as in IDLE.                      *)
C3_StoppedAcceptsLikeIdle ==
  [][ ( /\ op' = "line"
        /\ halted # "no"
        /\ lastAccepted # "STOP"
        /\ AcceptableRun(line')
        /\ TokenOf(line') # "STOP" )
      => (result' = DAEMON_OK /\ out' # <<RateLimitLine>>) ]_vars

(* C4: after a STOP line handled while ACTIVE the watchdog is disarmed: no  *)
(* tick writes OK until a new RUN has been accepted.                        *)
C4_StopDisarmsWatchdog ==
  [][ (op' = "tick" /\ halted = "stop_active" /\ CommandAccepted) => out' = <<>> ]_vars

(* C5: a RUN line that dispatch accepts and that was rejected with          *)
(* ERR RATE_LIMIT too_fast at time t is answered OK when handled at          *)
(* t + g_min_cmd_interval_ms (modulo 2^32) from the same state.             *)
C5_RetryAfterIntervalAccepted ==
  (retry /\ AcceptableRun(line)) => (result = DAEMON_OK /\ out[Len(out)] = "OK")

(* C5 witness: such a retry was accepted, at a now_ms that wrapped past 2^32. *)
C5_Witness ==
  /\ retry
  /\ CommandAccepted
  /\ AcceptableRun(line)
  /\ called # <<>>
  /\ result = DAEMON_OK
  /\ U32Lt(now, U32Of(g_min_cmd_interval_ms))

(* C6: every call of daemon_runtime_handle_line writes exactly one line.    *)
C6_OneResponseLine == op = "line" => Len(out) = 1

(* C7: for a branch with one int argument ranged [lo..hi] and a decimal     *)
(* integer word, dispatch returns DAEMON_ERR_RANGE when the written value   *)
(* is outside [lo, hi] and calls the user function only when it is inside.  *)
C7_IntRangeSound ==
  \A b \in Commands(d_profile) :
    ( /\ Dispatched
      /\ d_token = b.token
      /\ Len(b.args) = 1
      /\ b.args[1].kind = "int"
      /\ Len(d_argv) = 1
      /\ d_argv[1] \in IntWords )
    => LET outside == WrittenOutside(Written(d_argv[1]), b.args[1].lo, b.args[1].hi)
       IN  /\ outside => d_ret.result = DAEMON_ERR_RANGE
           /\ d_ret.called # <<>> => ~outside

(* C8 as stated: for every command of the catalog, a user-declared STOP     *)
(* included, dispatch returns DAEMON_ERR_BAD_ARGS and calls no user         *)
(* function when argc differs from the command's number of arguments.       *)
C8_AritySoundAllCommands ==
  \A b \in Commands(d_profile) :
    (Dispatched /\ d_token = b.token /\ Len(d_argv) # Len(b.args))
    => (d_ret.result = DAEMON_ERR_BAD_ARGS /\ d_ret.called = <<>>)

(* C8 as amended: the same for every command whose token is not STOP; for a *)
(* user-declared STOP the built-in branch answers first, so that dispatch   *)
(* returns DAEMON_OK for every argc, and calls no user function.            *)
C8_AritySoundExceptStop ==
  \A b \in Commands(d_profile) :
    (Dispatched /\ d_token = b.token /\ Len(d_argv) # Len(b.args))
    => IF b.token = "STOP"
       THEN d_ret = Ret(DAEMON_OK, daemon_runtime_stop, <<>>)
       ELSE d_ret.result = DAEMON_ERR_BAD_ARGS /\ d_ret.called = <<>>

(* C8 witness: a command other than STOP was dispatched with a wrong argc.  *)
C8_Witness ==
  \E b \in Commands(d_profile) :
    /\ Dispatched
    /\ d_token = b.token
    /\ b.token # "STOP"
    /\ Len(d_argv) > Len(b.args)
    /\ d_ret.result = DAEMON_ERR_BAD_ARGS

(* C9: the constants of the runtime that answers READ_MANIFEST are those    *)
(* the emitter's rules derive from the commands of the manifest it writes:  *)
(* g_watchdog_ms = max(100, min watchdog_ms) and g_min_cmd_interval_ms =    *)
(* max(10, ceil(1000 / max rate_limit_hz)).                                 *)
C9_ConstantsFromManifest ==
  (op = "line" /\ out = <<"MANIFEST">>)
  => /\ g_watchdog_ms = DerivedWatchdogMs(RcCarManifest)
     /\ g_min_cmd_interval_ms = DerivedMinCmdIntervalMs(RcCarManifest)

(* C10: daemon_runtime_handle_line changes g_last_cmd_ms only when the line *)
(* is a RUN whose dispatch returned DAEMON_OK.                              *)
C10_OnlyAcceptedRunFeeds ==
  [][ (op' = "line" /\ g_last_cmd_ms' # g_last_cmd_ms)
      => (IsRun(line') /\ result' = DAEMON_OK) ]_vars

(* C10 witness: while ACTIVE, a RUN answered ERR RANGE out_of_bounds later  *)
(* than the accepted RUN has left g_last_cmd_ms at that RUN's time.         *)
C10_Witness ==
  /\ op = "line"
  /\ result = DAEMON_ERR_RANGE
  /\ CommandAccepted
  /\ halted = "no"
  /\ now # t0
  /\ g_last_cmd_ms = t0
  /\ g_last_cmd_ms # U32Of(0)

(* C11: every accepted RUN arms the watchdog and starts the rate-limit      *)
(* window, whatever its now_ms, 0 and times after wraparound included:      *)
(* while ACTIVE after a RUN accepted at t0, a tick more than g_watchdog_ms  *)
(* after t0 (modulo 2^32) writes OK, and a RUN line less than               *)
(* g_min_cmd_interval_ms after t0 is answered ERR RATE_LIMIT too_fast.      *)
C11_AcceptedRunArms ==
  [][ (CommandAccepted /\ halted = "no")
      => /\ ( /\ op' = "tick"
              /\ U32Gt(U32Sub(now', t0), U32Of(g_watchdog_ms)) )
            => out' = daemon_runtime_stop
         /\ ( /\ op' = "line"
              /\ IsRun(line')
              /\ U32Lt(U32Sub(now', t0), U32Of(g_min_cmd_interval_ms)) )
            => out' = <<RateLimitLine>> ]_vars

(* The tokens of the per-command branches of a dispatch file, in order. *)
BranchTokens(profile) ==
  [i \in 1..(Len(Entry(profile)) - 1) |-> Entry(profile)[i + 1].token]

(* The tokens of commands[] of a manifest, in order. *)
ManifestTokens(cmds) == [i \in DOMAIN cmds |-> cmds[i].token]

(* C12: catalog order.  In the generated set that answered, the tokens of   *)
(* the per-command branches of daemon_entry_dispatch, after the built-in    *)
(* STOP, are in order the tokens of the @daemon:export annotations of the   *)
(* profile's firmware source, and the tokens of commands[] of the manifest  *)
(* embedded in the set's daemon_runtime.c.                                  *)
C12_CatalogOrder ==
  Dispatched
  => /\ BranchTokens(d_profile) = Exports(d_profile)
     /\ d_profile = RuntimeProfile
        => BranchTokens(d_profile) = ManifestTokens(RcCarManifest)

(* The result codes other than those of daemon_runtime.h used as probes. *)
OtherCodes == {1, 13, 14}

(* C13: runtime errors are strictly the wire strings.  A RUN line that      *)
(* passes the rate limit and that dispatch rejects is answered with the one *)
(* line of dispatch's result code: BAD_TOKEN -> ERR BAD_TOKEN unknown,      *)
(* BAD_ARGS -> ERR BAD_ARGS invalid, RANGE -> ERR RANGE out_of_bounds, any  *)
(* other non-zero code -> ERR INTERNAL dispatch_failed; the generated       *)
(* dispatch returns only DAEMON_OK and those three codes, so that           *)
(* ERR INTERNAL dispatch_failed is never written.                           *)
C13_ErrorsAreWireStrings ==
  /\ (op = "line" /\ result # NoDispatch)
     => /\ result \in {DAEMON_OK, DAEMON_ERR_BAD_TOKEN, DAEMON_ERR_BAD_ARGS, DAEMON_ERR_RANGE}
        /\ result = DAEMON_ERR_BAD_TOKEN => out = <<"ERR BAD_TOKEN unknown">>
        /\ result = DAEMON_ERR_BAD_ARGS => out = <<"ERR BAD_ARGS invalid">>
        /\ result = DAEMON_ERR_RANGE => out = <<"ERR RANGE out_of_bounds">>
  /\ \A i \in DOMAIN out : out[i] # "ERR INTERNAL dispatch_failed"
  /\ \A code \in OtherCodes : ResultLine(code) = "ERR INTERNAL dispatch_failed"

(* C13 witness: a RUN with a missing argument was answered ERR BAD_ARGS invalid. *)
C13_Witness ==
  /\ op = "line"
  /\ IsRun(line)
  /\ result = DAEMON_ERR_BAD_ARGS
  /\ out = <<"ERR BAD_ARGS invalid">>

(* C14: request classification.  A null line is answered                    *)
(* ERR BAD_REQUEST empty_line; every other line that is not exactly HELLO,  *)
(* READ_MANIFEST or STOP and does not begin with "RUN " (the zero-length    *)
(* line, "RUN" alone and "HELLO " included) is answered                     *)
(* ERR BAD_REQUEST unsupported; in both cases no user function is called    *)
(* and g_last_cmd_ms is unchanged.                                          *)
C14_RequestClassification ==
  [][ op' = "line"
      => /\ line' = NullLine
            => /\ out' = <<"ERR BAD_REQUEST empty_line">>
               /\ called' = <<>>
               /\ g_last_cmd_ms' = g_last_cmd_ms
         /\ ( /\ line' \notin {NullLine, <<"HELLO">>, <<"READ_MANIFEST">>, <<"STOP">>}
              /\ ~(Len(line') >= 2 /\ line'[1] = "RUN" /\ line'[2] = " ") )
            => /\ out' = <<"ERR BAD_REQUEST unsupported">>
               /\ called' = <<>>
               /\ g_last_cmd_ms' = g_last_cmd_ms ]_vars

(* C14 witness: while ACTIVE, "HELLO " was answered ERR BAD_REQUEST unsupported. *)
C14_Witness ==
  /\ op = "line"
  /\ line = <<"HELLO", " ">>
  /\ out = <<"ERR BAD_REQUEST unsupported">>
  /\ CommandAccepted
  /\ g_last_cmd_ms = t0
  /\ t0 # U32Of(0)

(* The functions of the user-declared STOP commands. *)
UserStopFns == {b.fn : b \in {c \in UNION {Commands(p) : p \in Profiles} : c.token = "STOP"}}

(* The user functions named in a sequence of calls. *)
FnsOf(cs) == {cs[i][1] : i \in DOMAIN cs}

(* C15: the built-in STOP short-circuits first.  In every generated         *)
(* dispatch file, daemon_entry_dispatch with token STOP and any argc calls  *)
(* daemon_runtime_stop() and returns DAEMON_OK without entering the         *)
(* per-command cascade, and no call of daemon_entry_dispatch or             *)
(* daemon_runtime_handle_line runs a user-declared STOP function.           *)
C15_BuiltinStopFirst ==
  /\ (Dispatched /\ d_token = "STOP") => d_ret = Ret(DAEMON_OK, daemon_runtime_stop, <<>>)
  /\ FnsOf(d_ret.called) \cap UserStopFns = {}
  /\ FnsOf(called) \cap UserStopFns = {}

(* C15 witness: STOP with no argument was dispatched in a set whose user    *)
(* declared STOP, and the built-in branch answered.                         *)
C15_Witness ==
  /\ Dispatched
  /\ d_token = "STOP"
  /\ d_argv = <<>>
  /\ \E b \in Commands(d_profile) : b.token = "STOP"
  /\ d_ret = Ret(DAEMON_OK, daemon_runtime_stop, <<>>)

(* The decoding of argument i of branch b passes: the word parses and the   *)
(* value is neither below lo nor above hi as the branch compares them.      *)
ArgPasses(a, w, abi) ==
  CASE a.kind = "string" -> TRUE
    [] a.kind = "int" ->
         LET p == daemon_parse_int(w, abi)
         IN  p.ok /\ ~NumLt(p.value, a.lo) /\ ~NumGt(p.value, a.hi)
    [] a.kind = "float" ->
         LET p == daemon_parse_float(w)
         IN  p.ok /\ ~NumLt(p.value, a.lo) /\ ~NumGt(p.value, a.hi)

(* C16: dispatch is all-or-nothing.  One call of daemon_entry_dispatch      *)
(* runs at most one user function, once, and only when the result is        *)
(* DAEMON_OK, the function is that of a branch of the token, and the arity  *)
(* check, every argument's parse and every range check of that branch have  *)
(* passed; with DAEMON_ERR_BAD_TOKEN, DAEMON_ERR_BAD_ARGS or                *)
(* DAEMON_ERR_RANGE no user function was called; an unknown or null token   *)
(* returns DAEMON_ERR_BAD_TOKEN.                                            *)
C16_DispatchAllOrNothing ==
  Dispatched
  => /\ Len(d_ret.called) <= 1
     /\ d_ret.result # DAEMON_OK => d_ret.called = <<>>
     /\ d_ret.called # <<>>
        => \E b \in Commands(d_profile) :
             /\ b.token = d_token
             /\ b.fn = d_ret.called[1][1]
             /\ Len(d_argv) = Len(b.args)
             /\ \A i \in DOMAIN b.args : ArgPasses(b.args[i], d_argv[i], d_abi)
     /\ (d_token = NULL \/ \A i \in DOMAIN Entry(d_profile) : Entry(d_profile)[i].token # d_token)
        => d_ret.result = DAEMON_ERR_BAD_TOKEN

(* C16 witness: STRAFE whose first argument passed and whose second is out  *)
(* of range returned DAEMON_ERR_RANGE and called nothing.                   *)
C16_Witness ==
  /\ Dispatched
  /\ d_token = "STRAFE"
  /\ Len(d_argv) = 2
  /\ d_argv[2] = "1.5"
  /\ d_ret.result = DAEMON_ERR_RANGE
  /\ d_ret.called = <<>>

(* C17: range soundness for float arguments.  Every value handed to a user  *)
(* function for a float argument ranged [lo..hi] is a number v with         *)
(* lo <= v <= hi, whatever word daemon_parse_float accepted, nan and inf    *)
(* included.                                                                *)
C17_FloatRangeSound ==
  \A b \in Commands(d_profile) :
    (Dispatched /\ d_token = b.token /\ d_ret.called # <<>>)
    => \A i \in DOMAIN b.args :
         b.args[i].kind = "float"
         => LET v == d_ret.called[1][2][i]
            IN  /\ v.k = "fin"
                /\ b.args[i].lo <= v.v
                /\ v.v <= b.args[i].hi

(* C18: IDLE is quiet and open.  After daemon_runtime_init and before any   *)
(* RUN has been accepted, a tick at any now_ms writes nothing, no RUN line  *)
(* is answered ERR RATE_LIMIT too_fast, and a line that is not an accepted  *)
(* RUN leaves the runtime as daemon_runtime_init left it.                   *)
C18_IdleQuietAndOpen ==
  [][ ~accepted
      => /\ op' = "tick" => (out' = <<>> /\ g_last_cmd_ms' = U32Of(0))
         /\ op' = "line" => out' # <<RateLimitLine>>
         /\ (op' = "line" /\ result' # DAEMON_OK) => g_last_cmd_ms' = U32Of(0) ]_vars

(* C18 witness: in IDLE, after a line has been handled, a tick later       *)
(* than g_watchdog_ms wrote nothing.                                        *)
C18_Witness ==
  /\ ~accepted
  /\ op = "tick"
  /\ quiet = FALSE
  /\ out = <<>>
  /\ U32Gt(now, U32Of(g_watchdog_ms))

(* The words of a RUN line after "RUN ". *)
WordsOf(l) == SelectSeq(SubSeq(l, 3, Len(l)), LAMBDA c : c # " ")

(* C19: a RUN line that carries no token ("RUN " followed by spaces or by   *)
(* nothing) and passes the rate limit reaches daemon_entry_dispatch with a  *)
(* null token and argc 0, is answered with exactly ERR BAD_TOKEN unknown,   *)
(* calls no user function and leaves g_last_cmd_ms unchanged; for every RUN *)
(* line that reaches dispatch, argv is the words after the token, the 17th  *)
(* and later dropped, so that argc is between 0 and 16.                     *)
C19_TokenlessRunAndArgc ==
  [][ (op' = "line" /\ IsRun(line') /\ ~RateLimited(now', g_last_cmd_ms))
      => /\ result' # NoDispatch
         /\ WordsOf(line') = <<>>
            => /\ d_token' = NULL
               /\ d_argv' = <<>>
               /\ out' = <<"ERR BAD_TOKEN unknown">>
               /\ called' = <<>>
               /\ g_last_cmd_ms' = g_last_cmd_ms
         /\ WordsOf(line') # <<>>
            => /\ d_token' = WordsOf(line')[1]
               /\ Len(d_argv') \in 0..16
               /\ Len(d_argv') <= Len(WordsOf(line')) - 1
               /\ Len(WordsOf(line')) - 1 <= 16 => Len(d_argv') = Len(WordsOf(line')) - 1
               /\ \A i \in DOMAIN d_argv' : d_argv'[i] = WordsOf(line')[i + 1] ]_vars

(* C19 witness: while ACTIVE and past the rate-limit window, "RUN " followed *)
(* by a space was answered ERR BAD_TOKEN unknown.                            *)
C19_Witness ==
  /\ op = "line"
  /\ line = <<"RUN", " ", " ">>
  /\ CommandAccepted
  /\ halted = "no"
  /\ t0 # U32Of(0)
  /\ g_last_cmd_ms = t0
  /\ d_ret.result = DAEMON_ERR_BAD_TOKEN
  /\ out = <<"ERR BAD_TOKEN unknown">>

(* C20: emergency-stop latch of the rc_car config.  After any sequence of   *)
(* daemon_dispatch_command and daemon_clear_estop calls, g_state.estop      *)
(* implies g_state.throttle_pct = 0 and throttle_pct and steering_pct are   *)
(* within [-100, 100]; while estop is set drive.set changes neither         *)
(* throttle nor steering; only daemon_clear_estop clears the latch.         *)
C20_EstopLatch ==
  /\ [](/\ g_state.estop => g_state.throttle_pct = 0
        /\ g_state.throttle_pct \in -100..100
        /\ g_state.steering_pct \in -100..100)
  /\ [][ /\ (g_state.estop /\ e_cmd' = "drive.set")
            => /\ g_state'.throttle_pct = g_state.throttle_pct
               /\ g_state'.steering_pct = g_state.steering_pct
         /\ (g_state.estop /\ ~g_state'.estop) => e_cmd' = "daemon_clear_estop" ]_vars

(* C20 witness: with the latch set and the wheels steered, drive.set 60 60  *)
(* returned 0 and left throttle at 0 and steering where it was.             *)
C20_Witness ==
  /\ g_state.estop
  /\ e_cmd = "drive.set"
  /\ e_a = 60
  /\ e_b = 60
  /\ e_ret = 0
  /\ g_state.throttle_pct = 0
  /\ g_state.steering_pct = -100

(* C21: motor-controller deadman.  After any sequence of mc_init,           *)
(* mc_set_drive, mc_emergency_stop and mc_tick_10ms calls, g_last_throttle  *)
(* and g_last_steering are within [-100, 100], and whenever at least 51     *)
(* mc_tick_10ms calls have been made since the latest mc_set_drive,         *)
(* g_last_throttle is 0, also once g_deadman_ticks has wrapped past 65535.  *)
C21_Deadman ==
  /\ g_last_throttle \in -100..100
  /\ g_last_steering \in -100..100
  /\ m_since >= 51 => g_last_throttle = 0

(* C21 witness: with no mc_set_drive or mc_init since, g_deadman_ticks has  *)
(* wrapped and counts from 0 again, below the limit, and the throttle set   *)
(* by the latest mc_set_drive is still cut.                                 *)
C21_Witness ==
  /\ m_wrapped
  /\ m_since >= 51
  /\ g_deadman_ticks < DeadmanLimit
  /\ g_last_steering = 60
  /\ g_last_throttle = 0

====
